---- MODULE Spec2Model ----
(***************************************************************************)
(* The scoring state machine of the voice-controlled cricket scorer:       *)
(* the ScoreState held by the App component and the setScore updaters      *)
(* recordDelivery, clearLastDelivery, handleMaxWicketsChange and           *)
(* resetInnings that transform it.                                         *)
(***************************************************************************)
EXTENDS Integers, Sequences, FiniteSets, TLC

VARIABLES
    score,   \* the ScoreState held by useState (App, line 20)
    last,    \* history: the last command handled (name, arguments)
    hist,    \* history: sums over the commands handled since the innings began
    message, \* the function calls of the tool-call message onmessage is
             \* looping over that it has not reached yet (line 225)
    pending, \* the updaters passed to setScore that React has not run yet
    serial,  \* history: the score that handling every function call at its
             \* arrival, each on the result of the one before, gives
    session  \* status and isRecording (useState, lines 29-30), how far the
             \* speech session has come, and the last callback that ran

vars == <<score, last, hist, message, pending, serial, session>>

-----------------------------------------------------------------------------
(* Bounds of the exploration.                                              *)

\* largest totalRuns + totalWickets explored
MaxTotal == 1
\* overs begun after the state was loaded
MaxOversBegun == 1
\* commands handled in a run of the classification
MaxClassified == 1
\* function calls received and not yet rendered
MaxCalls == 2
\* largest runs + wickets explored with the updater queue
MaxQueuedTotal == 3

-----------------------------------------------------------------------------
(* Optional values: an absent JavaScript argument is the empty sequence.   *)

None == <<>>
Some(x) == <<x>>

\* runs, runsOnDismissal: "Must be between 0 and 6" (tool declarations)
MaxRunArg == 6
\* the run values the command source sends in the exploration
RunInputs == {0, 1}
ExtraTypes == {"wide", "no_ball"}
\* ballNumber: absent, zero, in range, beyond the over
BallNumbers(recent) == {None} \cup {Some(n) : n \in 0 .. Len(recent) + 1}
\* the values parseInt gives for the text of the max-wickets input
WicketInputs == {None} \cup {Some(n) : n \in {-1, 0, 1}}

-----------------------------------------------------------------------------
(* ScoreState and BallEvent.                                               *)

INITIAL_SCORE_STATE ==
    [runs |-> 0, wickets |-> 0, overs |-> 0, balls |-> 0,
     recentThisOver |-> <<>>, inningsOver |-> FALSE,
     targetOvers |-> 20, maxWickets |-> 10]

\* recentThisOver.filter(b => b.isLegalDelivery).length
RECURSIVE LegalCount(_)
LegalCount(s) ==
    IF s = <<>> THEN 0
    ELSE (IF Head(s).isLegalDelivery THEN 1 ELSE 0) + LegalCount(Tail(s))

\* NewBallEvent without the penalty run of an extra
NewBallEvent_NoPenalty(type, args) ==
    LET blank == [display |-> "", runs |-> 0, isWicket |-> FALSE,
                  isLegalDelivery |-> FALSE, extraType |-> "none"]
    IN CASE type = "addRuns" ->
              [blank EXCEPT !.runs = args.runs,
                            !.display = ToString(args.runs),
                            !.isLegalDelivery = TRUE]
         [] type = "declareWicket" ->
              LET runsOnDismissal ==
                      IF args.runsOnDismissal = None \/ args.runsOnDismissal[1] = 0
                      THEN 0 ELSE args.runsOnDismissal[1]
              IN [blank EXCEPT !.runs = runsOnDismissal,
                               !.isWicket = TRUE,
                               !.display = "W" \o (IF runsOnDismissal > 0
                                                   THEN "+" \o ToString(runsOnDismissal)
                                                   ELSE ""),
                               !.isLegalDelivery = TRUE]
         [] type = "declareExtra" ->
              [blank EXCEPT !.runs = args.runs,
                            !.display = (IF args.runs > 0 THEN ToString(args.runs) ELSE "")
                                        \o (IF args.type = "wide" THEN "wd" ELSE "nb"),
                            !.isLegalDelivery = FALSE,
                            !.extraType = args.type]
         [] OTHER -> blank

\* Step 2 of recordDelivery: the BallEvent built from the function call
NewBallEvent(type, args) ==
    LET blank == [display |-> "", runs |-> 0, isWicket |-> FALSE,
                  isLegalDelivery |-> FALSE, extraType |-> "none"]
    IN CASE type = "addRuns" ->
              [blank EXCEPT !.runs = args.runs,
                            !.display = ToString(args.runs),
                            !.isLegalDelivery = TRUE]
         [] type = "declareWicket" ->
              LET runsOnDismissal ==
                      IF args.runsOnDismissal = None \/ args.runsOnDismissal[1] = 0
                      THEN 0 ELSE args.runsOnDismissal[1]
              IN [blank EXCEPT !.runs = runsOnDismissal,
                               !.isWicket = TRUE,
                               !.display = "W" \o (IF runsOnDismissal > 0
                                                   THEN "+" \o ToString(runsOnDismissal)
                                                   ELSE ""),
                               !.isLegalDelivery = TRUE]
         [] type = "declareExtra" ->
              [blank EXCEPT !.runs = 1 + args.runs,
                            !.display = (IF args.runs > 0 THEN ToString(args.runs) ELSE "")
                                        \o (IF args.type = "wide" THEN "wd" ELSE "nb"),
                            !.isLegalDelivery = FALSE,
                            !.extraType = args.type]
         [] OTHER -> blank

\* the condition of lines 63 and 111: ballNumberToEdit is truthy, positive
\* and not beyond the current over
IsEdit(ballNumberToEdit, recent) ==
    /\ ballNumberToEdit # None
    /\ ballNumberToEdit[1] # 0
    /\ ballNumberToEdit[1] > 0
    /\ ballNumberToEdit[1] <= Len(recent)

\* RevertOriginal without the wicket of the original ball
RevertOriginal_KeepsWicket(s, ballNumberToEdit) ==
    IF IsEdit(ballNumberToEdit, s.recentThisOver)
    THEN LET originalBall == s.recentThisOver[ballNumberToEdit[1]]
         IN [s EXCEPT !.runs = @ - originalBall.runs]
    ELSE s

\* Step 1: revert the original ball's score when the command is an edit
RevertOriginal(s, ballNumberToEdit) ==
    IF IsEdit(ballNumberToEdit, s.recentThisOver)
    THEN LET originalBall == s.recentThisOver[ballNumberToEdit[1]]
         IN [s EXCEPT !.runs = @ - originalBall.runs,
                      !.wickets = IF originalBall.isWicket THEN @ - 1 ELSE @]
    ELSE s

\* ApplyBall adding the runs of legal deliveries only
ApplyBall_SkipsExtras(s, newBallEvent) ==
    [s EXCEPT !.runs = IF newBallEvent.isLegalDelivery THEN @ + newBallEvent.runs ELSE @,
              !.wickets = IF newBallEvent.isWicket THEN @ + 1 ELSE @]

\* Step 3: apply the new ball's score
ApplyBall(s, newBallEvent) ==
    [s EXCEPT !.runs = @ + newBallEvent.runs,
              !.wickets = IF newBallEvent.isWicket THEN @ + 1 ELSE @]

\* UpdateRecent pushing only when no ballNumber was given
UpdateRecent_RejectsOutside(recent, newBallEvent, ballNumberToEdit) ==
    IF IsEdit(ballNumberToEdit, recent)
    THEN [recent EXCEPT ![ballNumberToEdit[1]] = newBallEvent]
    ELSE IF ballNumberToEdit = None /\ LegalCount(recent) < 6
         THEN Append(recent, newBallEvent)
         ELSE recent

\* Step 4: overwrite the edited ball, or push while fewer than 6 legal balls
UpdateRecent(recent, newBallEvent, ballNumberToEdit) ==
    IF IsEdit(ballNumberToEdit, recent)
    THEN [recent EXCEPT ![ballNumberToEdit[1]] = newBallEvent]
    ELSE IF LegalCount(recent) < 6
         THEN Append(recent, newBallEvent)
         ELSE recent

\* Recalculate completing the over one legal delivery late
Recalculate_SevenBalls(s) ==
    LET legalDeliveries == LegalCount(s.recentThisOver)
    IN IF legalDeliveries > 6
       THEN [s EXCEPT !.overs = @ + 1, !.balls = 0, !.recentThisOver = <<>>]
       ELSE [s EXCEPT !.balls = legalDeliveries]

\* Recalculate counting every delivery of the over, extras too
Recalculate_CountsExtras(s) ==
    LET legalDeliveries == Len(s.recentThisOver)
    IN IF legalDeliveries >= 6
       THEN [s EXCEPT !.overs = @ + 1, !.balls = 0, !.recentThisOver = <<>>]
       ELSE [s EXCEPT !.balls = legalDeliveries]

\* Step 5: recalculate overs and balls
Recalculate(s) ==
    LET legalDeliveries == LegalCount(s.recentThisOver)
    IN IF legalDeliveries >= 6
       THEN [s EXCEPT !.overs = @ + 1, !.balls = 0, !.recentThisOver = <<>>]
       ELSE [s EXCEPT !.balls = legalDeliveries]

\* CheckInningsEnd ending the innings one wicket or over late
CheckInningsEnd_Strict(s) ==
    IF s.wickets > s.maxWickets \/ s.overs > s.targetOvers
    THEN [s EXCEPT !.inningsOver = TRUE]
    ELSE s

\* Step 6: check for innings end
CheckInningsEnd(s) ==
    IF s.wickets >= s.maxWickets \/ s.overs >= s.targetOvers
    THEN [s EXCEPT !.inningsOver = TRUE]
    ELSE s

\* recordDelivery without the early return of a finished innings
recordDelivery_NoEndCheck(currentScore, type, args, ballNumberToEdit) ==
    LET newBallEvent == NewBallEvent(type, args)
        reverted == RevertOriginal(currentScore, ballNumberToEdit)
        applied == ApplyBall(reverted, newBallEvent)
        updated == [applied EXCEPT !.recentThisOver =
                       UpdateRecent(currentScore.recentThisOver,
                                    newBallEvent, ballNumberToEdit)]
    IN CheckInningsEnd(Recalculate(updated))

\* the updater recordDelivery passes to setScore
recordDelivery(currentScore, type, args, ballNumberToEdit) ==
    IF currentScore.inningsOver THEN currentScore
    ELSE LET newBallEvent == NewBallEvent(type, args)
             reverted == RevertOriginal(currentScore, ballNumberToEdit)
             applied == ApplyBall(reverted, newBallEvent)
             updated == [applied EXCEPT !.recentThisOver =
                            UpdateRecent(currentScore.recentThisOver,
                                         newBallEvent, ballNumberToEdit)]
         IN CheckInningsEnd(Recalculate(updated))

\* clearLastDelivery without the recount of the legal deliveries
clearLastDelivery_KeepsBalls(currentScore) ==
    IF currentScore.inningsOver \/ Len(currentScore.recentThisOver) = 0
    THEN currentScore
    ELSE LET n == Len(currentScore.recentThisOver)
             lastBall == currentScore.recentThisOver[n]
             newRecentThisOver == SubSeq(currentScore.recentThisOver, 1, n - 1)
         IN [currentScore EXCEPT
                !.runs = @ - lastBall.runs,
                !.wickets = IF lastBall.isWicket THEN @ - 1 ELSE @,
                !.recentThisOver = newRecentThisOver]

\* clearLastDelivery without the wicket of the removed ball
clearLastDelivery_KeepsWickets(currentScore) ==
    IF currentScore.inningsOver \/ Len(currentScore.recentThisOver) = 0
    THEN currentScore
    ELSE LET n == Len(currentScore.recentThisOver)
             lastBall == currentScore.recentThisOver[n]
             newRecentThisOver == SubSeq(currentScore.recentThisOver, 1, n - 1)
         IN [currentScore EXCEPT
                !.runs = @ - lastBall.runs,
                !.recentThisOver = newRecentThisOver,
                !.balls = LegalCount(newRecentThisOver)]

\* clearLastDelivery taking back the last over once the current one is empty
clearLastDelivery_ReopensOver(currentScore) ==
    IF currentScore.inningsOver \/ Len(currentScore.recentThisOver) = 0
    THEN currentScore
    ELSE LET n == Len(currentScore.recentThisOver)
             lastBall == currentScore.recentThisOver[n]
             newRecentThisOver == SubSeq(currentScore.recentThisOver, 1, n - 1)
         IN [currentScore EXCEPT
                !.runs = @ - lastBall.runs,
                !.wickets = IF lastBall.isWicket THEN @ - 1 ELSE @,
                !.overs = IF n = 1 /\ @ > 0 THEN @ - 1 ELSE @,
                !.recentThisOver = newRecentThisOver,
                !.balls = LegalCount(newRecentThisOver)]

\* the updater clearLastDelivery passes to setScore
clearLastDelivery(currentScore) ==
    IF currentScore.inningsOver \/ Len(currentScore.recentThisOver) = 0
    THEN currentScore
    ELSE LET n == Len(currentScore.recentThisOver)
             lastBall == currentScore.recentThisOver[n]
             newRecentThisOver == SubSeq(currentScore.recentThisOver, 1, n - 1)
         IN [currentScore EXCEPT
                !.runs = @ - lastBall.runs,
                !.wickets = IF lastBall.isWicket THEN @ - 1 ELSE @,
                !.recentThisOver = newRecentThisOver,
                !.balls = LegalCount(newRecentThisOver)]

\* handleGeminiFunctionCall: clearLastBall clears, any other name records a
\* delivery with args.ballNumber as the ball to edit
handleGeminiFunctionCall(s, type, args) ==
    IF type = "clearLastBall"
    THEN clearLastDelivery(s)
    ELSE recordDelivery(s, type, args, args.ballNumber)

\* the disabled flag of the max-wickets input
isGameStarted(s) == s.runs > 0 \/ s.wickets > 0 \/ s.overs > 0 \/ s.balls > 0

-----------------------------------------------------------------------------
(* History kept beside the program state, to state the claims.             *)

\* recentThisOver.filter(b => b.isWicket).length
RECURSIVE WicketCount(_)
WicketCount(s) ==
    IF s = <<>> THEN 0
    ELSE (IF Head(s).isWicket THEN 1 ELSE 0) + WicketCount(Tail(s))

\* hist, the sums over the commands handled since the innings began:
\* accepted:    sum of the runs of the outcomes of the delivery commands
\*              handled while the innings was not over, less the runs of the
\*              outcomes an edit replaced or clearLastBall removed
\* ignored:     sum of the runs of the outcomes of the delivery commands
\*              handled while the innings was over
\* onlyExtras:  the innings is fresh and every command so far was declareExtra
\* doneWickets: wickets recorded in the overs completed since the state
\*              was loaded or reset
\* played:      overs completed since the state was loaded or reset
\* streak:      how many addRuns and declareWicket commands without a valid
\*              ballNumber were handled in a row, while the innings was not
\*              over, since the current over was empty (-1: something else
\*              was handled since)
\* streakFrom:  overs when the streak began
FreshHist ==
    [accepted |-> 0, ignored |-> 0, onlyExtras |-> TRUE,
     doneWickets |-> 0, played |-> 0, streak |-> 0, streakFrom |-> 0]

NoStreak(h) == [h EXCEPT !.streak = -1, !.streakFrom = 0]

\* last, the last command handled: its name; for a delivery command whether
\* it was ignored because the innings was over and, when it was not, its
\* arguments but ballNumber, whether ballNumber was absent, inside
\* 1..length of the current over or outside it, the ball number when inside,
\* and the outcome the command was classified into; for clearLastBall
\* whether it removed the outcome the command before it had appended
NoBall == [display |-> "", runs |-> 0, isWicket |-> FALSE,
           isLegalDelivery |-> FALSE, extraType |-> "none"]
NoArgs == [runs |-> 0, runsOnDismissal |-> None, type |-> "none"]
Other(type) ==
    [type |-> type, args |-> NoArgs, ball |-> NoBall, ballNumber |-> "absent",
     k |-> 0, ignored |-> FALSE, undo |-> FALSE]
NoCommand == Other("none")

DeliveryTypes == {"addRuns", "declareWicket", "declareExtra"}

BallNumberClass(ballNumber, recent) ==
    IF ballNumber = None THEN "absent"
    ELSE IF ballNumber[1] >= 1 /\ ballNumber[1] <= Len(recent) THEN "inside"
    ELSE "outside"

WithoutBallNumber(args) ==
    [runs |-> args.runs, runsOnDismissal |-> args.runsOnDismissal, type |-> args.type]

LastDelivery(s, type, args) ==
    LET class == BallNumberClass(args.ballNumber, s.recentThisOver)
    IN IF s.inningsOver
       THEN [Other(type) EXCEPT !.ignored = TRUE]
       ELSE [type |-> type, args |-> WithoutBallNumber(args),
             ball |-> NewBallEvent(type, args), ballNumber |-> class,
             k |-> IF class = "inside" THEN args.ballNumber[1] ELSE 0,
             ignored |-> FALSE, undo |-> FALSE]

\* the streak after a delivery command handled in state s
StreakAfterDelivery(s, type, args) ==
    LET n == IF s.recentThisOver = <<>> THEN 0 ELSE hist.streak
        from == IF s.recentThisOver = <<>> THEN s.overs ELSE hist.streakFrom
    IN IF /\ type \in {"addRuns", "declareWicket"}
          /\ BallNumberClass(args.ballNumber, s.recentThisOver) # "inside"
          /\ ~s.inningsOver
          /\ n >= 0
       THEN [streak |-> n + 1, streakFrom |-> from]
       ELSE [streak |-> -1, streakFrom |-> 0]

\* the history after recordDelivery has taken s to next
HistAfterDelivery(s, type, args, next) ==
    LET ball == NewBallEvent(type, args)
        edit == BallNumberClass(args.ballNumber, s.recentThisOver) = "inside"
        original == s.recentThisOver[args.ballNumber[1]]
        completes == next.overs # s.overs
        streak == StreakAfterDelivery(s, type, args)
    IN [accepted |-> IF s.inningsOver THEN hist.accepted
                     ELSE hist.accepted + ball.runs
                          - (IF edit THEN original.runs ELSE 0),
        ignored |-> IF s.inningsOver THEN hist.ignored + ball.runs
                    ELSE hist.ignored,
        onlyExtras |-> hist.onlyExtras /\ type = "declareExtra",
        doneWickets |-> IF completes
                        THEN hist.doneWickets + WicketCount(s.recentThisOver)
                             - (IF edit /\ original.isWicket THEN 1 ELSE 0)
                             + (IF ball.isWicket THEN 1 ELSE 0)
                        ELSE hist.doneWickets,
        played |-> IF completes THEN hist.played + 1 ELSE hist.played,
        streak |-> streak.streak,
        streakFrom |-> streak.streakFrom]

\* the part of the state space explored
Explored(s, h) ==
    /\ s.runs + s.wickets <= MaxTotal
    /\ h.ignored <= MaxTotal
    /\ h.played + (IF s.recentThisOver = <<>> THEN 0 ELSE 1) <= MaxOversBegun

-----------------------------------------------------------------------------
(* The program.                                                            *)

\* a snapshot saved to sessionStorage by an earlier visit and restored by
\* the useState initialiser: the last over of an innings of dot balls
SavedScore ==
    [INITIAL_SCORE_STATE EXCEPT !.overs = INITIAL_SCORE_STATE.targetOvers - 1]

\* the setScore call of an action and the render that runs its updater taken
\* as one step: nothing waits in the loop or in the queue
Unqueued ==
    /\ serial' = score'
    /\ UNCHANGED <<message, pending, session>>

Init ==
    /\ score \in {INITIAL_SCORE_STATE, SavedScore}
    /\ message = <<>>
    /\ pending = <<>>
    /\ serial = score
    /\ session = [status |-> "idle", isRecording |-> FALSE,
                  phase |-> "none", event |-> "none"]
    /\ last = NoCommand
    /\ hist = [FreshHist EXCEPT !.onlyExtras = (score = INITIAL_SCORE_STATE),
                                !.streakFrom = score.overs]

\* a delivery function call arrives from the speech service
Deliver(type, args) ==
    LET next == handleGeminiFunctionCall(score, type, args)
        h == HistAfterDelivery(score, type, args, next)
    IN /\ Explored(next, h)
       /\ score' = next
       /\ hist' = h
       /\ last' = LastDelivery(score, type, args)
       /\ Unqueued

AddRuns ==
    \E runs \in RunInputs, ballNumber \in BallNumbers(score.recentThisOver) :
        Deliver("addRuns", [runs |-> runs, runsOnDismissal |-> None,
                            type |-> "none", ballNumber |-> ballNumber])

DeclareWicket ==
    \E runsOnDismissal \in {None} \cup {Some(r) : r \in RunInputs},
       ballNumber \in BallNumbers(score.recentThisOver) :
        Deliver("declareWicket", [runs |-> 0, runsOnDismissal |-> runsOnDismissal,
                                  type |-> "none", ballNumber |-> ballNumber])

DeclareExtra ==
    \E type \in ExtraTypes, runs \in RunInputs,
       ballNumber \in BallNumbers(score.recentThisOver) :
        Deliver("declareExtra", [runs |-> runs, runsOnDismissal |-> None,
                                 type |-> type, ballNumber |-> ballNumber])

\* the clearLastBall function call arrives from the speech service
ClearLastBall ==
    /\ score' = handleGeminiFunctionCall(score, "clearLastBall", NoArgs)
    /\ hist' = [NoStreak(hist) EXCEPT
                   !.accepted = IF score' = score THEN @
                                ELSE @ - score.recentThisOver[Len(score.recentThisOver)].runs,
                   !.onlyExtras = FALSE]
    /\ last' = [Other("clearLastBall") EXCEPT
                   !.undo = /\ score' # score
                            /\ last.type \in DeliveryTypes
                            /\ ~last.ignored
                            /\ last.ballNumber # "inside"]
    /\ Unqueued

\* handleMaxWicketsChange without the newMaxWickets > 0 test
handleMaxWicketsChange_AnyNumber ==
    /\ ~isGameStarted(score)
    /\ \E newMaxWickets \in WicketInputs :
          score' = IF newMaxWickets # None
                   THEN [score EXCEPT !.maxWickets = newMaxWickets[1]]
                   ELSE score
    /\ last' = Other("maxWickets")
    /\ hist' = NoStreak(hist)
    /\ Unqueued

\* handleMaxWicketsChange, reachable while the input is not disabled;
\* newMaxWickets is parseInt of the typed text, None when it is NaN
handleMaxWicketsChange ==
    /\ ~isGameStarted(score)
    /\ \E newMaxWickets \in WicketInputs :
          score' = IF newMaxWickets # None /\ newMaxWickets[1] > 0
                   THEN [score EXCEPT !.maxWickets = newMaxWickets[1]]
                   ELSE score
    /\ last' = Other("maxWickets")
    /\ hist' = NoStreak(hist)
    /\ Unqueued

\* resetInnings without carrying maxWickets over
resetInnings_DefaultWickets ==
    /\ score.inningsOver
    /\ score' = INITIAL_SCORE_STATE
    /\ hist' = FreshHist
    /\ last' = Other("newInnings")
    /\ Unqueued

\* resetInnings, behind the New Innings button shown when the innings is over
resetInnings ==
    /\ score.inningsOver
    /\ score' = [INITIAL_SCORE_STATE EXCEPT !.maxWickets = score.maxWickets]
    /\ hist' = FreshHist
    /\ last' = Other("newInnings")
    /\ Unqueued

Next ==
    \/ AddRuns
    \/ DeclareWicket
    \/ DeclareExtra
    \/ ClearLastBall
    \/ handleMaxWicketsChange
    \/ resetInnings

Spec == Init /\ [][Next]_vars

\* The delivery commands alone, none of them an edit: the sequences of C6.
AppendRuns == AddRuns /\ last'.ballNumber # "inside"
AppendWicket == DeclareWicket /\ last'.ballNumber # "inside"
AppendExtra == DeclareExtra /\ last'.ballNumber # "inside"

NextAppend ==
    \/ AppendRuns
    \/ AppendWicket
    \/ AppendExtra
    \/ handleMaxWicketsChange
    \/ resetInnings

SpecAppend == Init /\ [][NextAppend]_vars

\* The classification of Step 2 on every argument the tool declarations
\* allow: up to MaxClassified commands handled from an initial state.
Classify(type, args) ==
    LET next == handleGeminiFunctionCall(score, type, args)
    IN /\ ~score.inningsOver
       /\ Len(score.recentThisOver) < MaxClassified
       /\ hist.played = 0
       /\ score' = next
       /\ hist' = HistAfterDelivery(score, type, args, next)
       /\ last' = LastDelivery(score, type, args)
       /\ Unqueued

ClassifyRuns ==
    \E runs \in 0 .. MaxRunArg, ballNumber \in {None, Some(0)} :
        Classify("addRuns", [runs |-> runs, runsOnDismissal |-> None,
                             type |-> "none", ballNumber |-> ballNumber])

ClassifyWicket ==
    \E runsOnDismissal \in {None} \cup {Some(r) : r \in 0 .. MaxRunArg},
       ballNumber \in {None, Some(0)} :
        Classify("declareWicket", [runs |-> 0, runsOnDismissal |-> runsOnDismissal,
                                   type |-> "none", ballNumber |-> ballNumber])

ClassifyExtra ==
    \E type \in ExtraTypes, runs \in 0 .. MaxRunArg, ballNumber \in {None, Some(0)} :
        Classify("declareExtra", [runs |-> runs, runsOnDismissal |-> None,
                                  type |-> type, ballNumber |-> ballNumber])

NextClassify ==
    \/ ClassifyRuns
    \/ ClassifyWicket
    \/ ClassifyExtra

SpecClassify == Init /\ [][NextClassify]_vars

\* The path of a function call from the speech service to the score:
\* onmessage loops over message.toolCall.functionCalls and passes each call
\* to handleGeminiFunctionCall, which passes an updater to setScore; React
\* runs the queued updaters when it renders, after the loop has returned.

\* the function calls of the exploration: each delivery adds 1 to
\* runs + wickets
QueueCalls ==
    { <<"addRuns", [runs |-> 1, runsOnDismissal |-> None, type |-> "none",
                    ballNumber |-> None]>>,
      <<"declareWicket", [runs |-> 0, runsOnDismissal |-> None, type |-> "none",
                          ballNumber |-> None]>>,
      <<"declareExtra", [runs |-> 0, runsOnDismissal |-> None, type |-> "wide",
                         ballNumber |-> None]>>,
      <<"clearLastBall", [runs |-> 0, runsOnDismissal |-> None, type |-> "none",
                          ballNumber |-> None]>> }

\* the updaters of the queue q run last-queued only, on the rendered state
RunUpdaters_Stale(s, q) ==
    IF q = <<>> THEN s
    ELSE handleGeminiFunctionCall(s, q[Len(q)][1], q[Len(q)][2])

\* React running the queued updaters: each is called with the state the
\* one before it returned (setScore(currentScore => ...), lines 56 and 138)
RECURSIVE RunUpdaters(_, _)
RunUpdaters(s, q) ==
    IF q = <<>> THEN s
    ELSE RunUpdaters(handleGeminiFunctionCall(s, Head(q)[1], Head(q)[2]), Tail(q))

\* a tool-call message arrives while no message is being handled
OnMessage ==
    /\ message = <<>>
    /\ \E n \in 1 .. MaxCalls - Len(pending) :
          \E functionCalls \in [1 .. n -> QueueCalls] :
              /\ serial.runs + serial.wickets + n <= MaxQueuedTotal
              /\ message' = functionCalls
    /\ UNCHANGED <<score, last, hist, pending, serial, session>>

\* one turn of the loop over the function calls: the call's updater is queued
CallNext ==
    /\ message # <<>>
    /\ message' = Tail(message)
    /\ pending' = Append(pending, Head(message))
    /\ serial' = handleGeminiFunctionCall(serial, Head(message)[1], Head(message)[2])
    /\ UNCHANGED <<score, last, hist, session>>

\* React renders once the loop has returned and runs the queued updaters
Render ==
    /\ message = <<>>
    /\ pending # <<>>
    /\ score' = RunUpdaters(score, pending)
    /\ pending' = <<>>
    /\ UNCHANGED <<last, hist, message, serial, session>>

NextQueue ==
    \/ OnMessage
    \/ CallNext
    \/ Render

SpecQueue == Init /\ [][NextQueue]_vars

\* The speech session. phase is how far startSession and the connection have
\* come: "none", "starting" (getUserMedia awaited), "connecting" (live.connect
\* called), "open" (onopen ran), "closed" (the service closed the connection).
\* Each callback is one step: the setStatus and setIsRecording calls of one
\* callback are rendered together, the last call for a state winning.

setStatus(s, status) == [s EXCEPT !.status = status]
setIsRecording(s, isRecording) == [s EXCEPT !.isRecording = isRecording]

\* the text under the button
getStatusText(status) ==
    CASE status = "idle" -> "Tap to start scoring"
      [] status = "connecting" -> "Connecting..."
      [] status = "listening" ->
            "Listening... (e.g., \"1st ball 4\", \"wicket\", \"clear last ball\")"
      [] status = "error" -> "An error occurred. Please try again."
      [] OTHER -> ""

\* stopSession: isRecording false, status idle, the session closed; a
\* startSession still waiting for getUserMedia goes on
stopSession(s) ==
    [setStatus(setIsRecording(s, FALSE), "idle") EXCEPT
        !.phase = IF @ = "starting" THEN "starting" ELSE "none"]

\* the onerror callback
onerror(s) == stopSession(setStatus(s, "error"))

\* handleToggleRecording while not recording: startSession up to its await
StartRecording ==
    /\ ~session.isRecording
    /\ session.phase = "none"
    /\ session' = [setIsRecording(setStatus(session, "connecting"), TRUE) EXCEPT
                       !.phase = "starting", !.event = "start"]
    /\ UNCHANGED <<score, last, hist, message, pending, serial>>

\* handleToggleRecording while recording: stopSession
StopRecording ==
    /\ session.isRecording
    /\ session' = [stopSession(session) EXCEPT !.event = "stop"]
    /\ UNCHANGED <<score, last, hist, message, pending, serial>>

\* getUserMedia resolves and startSession calls live.connect
Connect ==
    /\ session.phase = "starting"
    /\ session' = [session EXCEPT !.phase = "connecting", !.event = "connect"]
    /\ UNCHANGED <<score, last, hist, message, pending, serial>>

\* getUserMedia or live.connect throws: the catch of startSession
StartFailed ==
    /\ session.phase = "starting"
    /\ session' = [setIsRecording(setStatus(session, "error"), FALSE) EXCEPT
                       !.phase = "none", !.event = "catch"]
    /\ UNCHANGED <<score, last, hist, message, pending, serial>>

OnOpen ==
    /\ session.phase = "connecting"
    /\ session' = [setStatus(session, "listening") EXCEPT
                       !.phase = "open", !.event = "onopen"]
    /\ UNCHANGED <<score, last, hist, message, pending, serial>>

OnError ==
    /\ session.phase \in {"connecting", "open"}
    /\ session' = [onerror(session) EXCEPT !.event = "onerror"]
    /\ UNCHANGED <<score, last, hist, message, pending, serial>>

\* onclose only logs
OnClose ==
    /\ session.phase \in {"connecting", "open"}
    /\ session' = [session EXCEPT !.phase = "closed", !.event = "onclose"]
    /\ UNCHANGED <<score, last, hist, message, pending, serial>>

\* a tool-call message arrives on the open session
OnToolCall ==
    /\ session.phase = "open"
    /\ \/ ClassifyRuns
       \/ ClassifyWicket
       \/ ClassifyExtra

NextSession ==
    \/ StartRecording
    \/ StopRecording
    \/ Connect
    \/ StartFailed
    \/ OnOpen
    \/ OnError
    \/ OnClose
    \/ OnToolCall

SpecSession == Init /\ [][NextSession]_vars

-----------------------------------------------------------------------------
(* The commands a claim quantifies over.                                   *)

\* every delivery command of the exploration, without its ballNumber
DeliveryCommands ==
    {<<"addRuns", [runs |-> r, runsOnDismissal |-> None, type |-> "none"]>> :
        r \in RunInputs}
    \cup {<<"declareWicket", [runs |-> 0, runsOnDismissal |-> d, type |-> "none"]>> :
             d \in {None} \cup {Some(r) : r \in RunInputs}}
    \cup {<<"declareExtra", [runs |-> r, runsOnDismissal |-> None, type |-> e]>> :
             r \in RunInputs, e \in ExtraTypes}

WithBallNumber(args, ballNumber) ==
    [runs |-> args.runs, runsOnDismissal |-> args.runsOnDismissal,
     type |-> args.type, ballNumber |-> ballNumber]

\* ballNumbers that are zero, negative or beyond the current over
OutsideBallNumbers(recent) ==
    {Some(n) : n \in {-1, 0, Len(recent) + 1, Len(recent) + 2}}

\* the fields clearLastBall is said to restore
SameOver(a, b) ==
    /\ a.runs = b.runs
    /\ a.wickets = b.wickets
    /\ a.recentThisOver = b.recentThisOver
    /\ a.balls = b.balls

Bit(b) == IF b THEN 1 ELSE 0

-----------------------------------------------------------------------------
(* C1 .. C10                                                               *)

\* C1: once inningsOver is true, a scoring command (addRuns, declareWicket,
\* declareExtra, clearLastBall) leaves runs, wickets, overs, balls,
\* recentThisOver and inningsOver unchanged, and only resetInnings leaves
\* the ended state.
C1_EndedIsFrozen ==
    [][score.inningsOver =>
          /\ last'.type \in DeliveryTypes \cup {"clearLastBall"} =>
                /\ score'.runs = score.runs
                /\ score'.wickets = score.wickets
                /\ score'.overs = score.overs
                /\ score'.balls = score.balls
                /\ score'.recentThisOver = score.recentThisOver
                /\ score'.inningsOver
          /\ ~score'.inningsOver => last'.type = "newInnings"]_vars

\* an addRuns command was handled after the innings was over
C1_IgnoredAfterEnd ==
    /\ score.inningsOver
    /\ last.type = "addRuns"
    /\ last.ignored
    /\ hist.ignored > 0

\* C2 as stated: an edit of ball k from A to B changes runs by B.runs - A.runs
\* and wickets by B.isWicket - A.isWicket, and never changes overs.
C2_EditNeverCompletesOver ==
    [][(last'.type \in DeliveryTypes /\ last'.ballNumber = "inside") =>
          LET A == score.recentThisOver[last'.k]
              B == last'.ball
          IN /\ score'.runs - score.runs = B.runs - A.runs
             /\ score'.wickets - score.wickets = Bit(B.isWicket) - Bit(A.isWicket)
             /\ score'.overs = score.overs]_vars

\* C2 amended: an edit of ball k from A to B changes runs by B.runs - A.runs
\* and wickets by B.isWicket - A.isWicket; overs is unchanged, except that it
\* grows by one when the edit replaces an extra by a legal delivery in an
\* over that holds five legal deliveries.
C2_EditNetEffect ==
    [][(last'.type \in DeliveryTypes /\ last'.ballNumber = "inside") =>
          LET A == score.recentThisOver[last'.k]
              B == last'.ball
              sixth == /\ ~A.isLegalDelivery
                       /\ B.isLegalDelivery
                       /\ LegalCount(score.recentThisOver) = 5
          IN /\ score'.runs - score.runs = B.runs - A.runs
             /\ score'.wickets - score.wickets = Bit(B.isWicket) - Bit(A.isWicket)
             /\ score'.overs = score.overs + Bit(sixth)]_vars

\* an edit has replaced an extra that scored by a legal delivery and so
\* completed the over
C2_EditCompletedOver ==
    /\ last.type \in DeliveryTypes
    /\ last.ballNumber = "inside"
    /\ last.ball.isLegalDelivery
    /\ score.recentThisOver = <<>>
    /\ hist.played = 1

\* C3 as stated: in a state where the innings is not over, a delivery
\* command without a valid ballNumber that does not complete the over,
\* followed by clearLastBall, gives back runs, wickets, recentThisOver and
\* balls.
C3_ClearUndoesAnyAppend ==
    ~score.inningsOver =>
        \A c \in DeliveryCommands :
            \A ballNumber \in {None, Some(0), Some(Len(score.recentThisOver) + 1)} :
                LET appended == handleGeminiFunctionCall(
                                    score, c[1], WithBallNumber(c[2], ballNumber))
                IN appended.overs = score.overs =>
                      SameOver(handleGeminiFunctionCall(appended, "clearLastBall", NoArgs),
                               score)

\* C3 amended: the same, for the commands that neither complete the over nor
\* end the innings.
C3_ClearUndoesAppend ==
    ~score.inningsOver =>
        \A c \in DeliveryCommands :
            \A ballNumber \in {None, Some(0), Some(Len(score.recentThisOver) + 1)} :
                LET appended == handleGeminiFunctionCall(
                                    score, c[1], WithBallNumber(c[2], ballNumber))
                IN (appended.overs = score.overs /\ ~appended.inningsOver) =>
                      SameOver(handleGeminiFunctionCall(appended, "clearLastBall", NoArgs),
                               score)

\* clearLastBall has removed the outcome the command before it had appended
C3_ClearedAfterAppend ==
    /\ last.type = "clearLastBall"
    /\ last.undo

\* C4: after a delivery command handled while the innings was not over,
\* inningsOver is true exactly when wickets >= maxWickets or
\* overs >= targetOvers.
C4_InningsEndCheck ==
    (last.type \in DeliveryTypes /\ ~last.ignored) =>
        (score.inningsOver <=>
            (score.wickets >= score.maxWickets \/ score.overs >= score.targetOvers))

\* with maxWickets = 1 a single declareWicket has ended the innings
C4_WicketEndsInnings ==
    /\ last.type = "declareWicket"
    /\ ~last.ignored
    /\ score.maxWickets = 1
    /\ score.wickets = 1
    /\ score.inningsOver

\* n addRuns(1) commands handled from the initial state
RECURSIVE Singles(_)
Singles(n) ==
    IF n = 0 THEN INITIAL_SCORE_STATE
    ELSE handleGeminiFunctionCall(
             Singles(n - 1), "addRuns",
             [runs |-> 1, runsOnDismissal |-> None, type |-> "none",
              ballNumber |-> None])

FiveSingles == Singles(5)
SixSingles == Singles(6)

\* C5: six addRuns or declareWicket commands without a valid ballNumber,
\* handled in a row from an empty current over while the innings is not
\* over, raise overs by exactly one and leave recentThisOver empty and
\* balls = 0, and no fewer do; six addRuns(1) from the initial state give
\* overs = 1 and runs = 6.
C5_OverRollover ==
    /\ hist.streak \in 1 .. 5 =>
          /\ score.overs = hist.streakFrom
          /\ Len(score.recentThisOver) = hist.streak
          /\ score.balls = hist.streak
    /\ hist.streak >= 6 =>
          /\ hist.streak = 6
          /\ score.overs = hist.streakFrom + 1
          /\ score.recentThisOver = <<>>
          /\ score.balls = 0
    /\ FiveSingles.overs = 0
    /\ Len(FiveSingles.recentThisOver) = 5
    /\ SixSingles.overs = 1
    /\ SixSingles.runs = 6
    /\ SixSingles.recentThisOver = <<>>
    /\ SixSingles.balls = 0

\* the sixth legal delivery in a row has been handled
C5_SixthLegalDelivery ==
    /\ hist.streak = 6
    /\ last.type \in {"addRuns", "declareWicket"}
    /\ score.overs = hist.streakFrom + 1

\* C6 as stated: with no edit and no clearLastBall, runs is the sum of the
\* runs of the outcome of every delivery command handled.
C6_RunsAreSumOfAll == score.runs = hist.accepted + hist.ignored

\* C6 amended: with no edit and no clearLastBall, runs is the sum of the runs
\* of the outcome of every delivery command handled while the innings was
\* not over.
C6_RunConservation == score.runs = hist.accepted

\* runs were scored, the innings is over, and a command that would have
\* scored was handled afterwards
C6_RunsThenIgnored ==
    /\ score.runs > 0
    /\ score.inningsOver
    /\ hist.ignored > 0

\* C7: wickets is the number of wickets of the completed overs plus the
\* number of wicket outcomes in recentThisOver.
C7_WicketConservation ==
    score.wickets = hist.doneWickets + WicketCount(score.recentThisOver)

\* an over with a wicket in it has been completed and no wicket fell since
C7_WicketInCompletedOver ==
    /\ hist.played = 1
    /\ hist.doneWickets = 1
    /\ score.wickets = 1
    /\ WicketCount(score.recentThisOver) = 0
    /\ ~score.inningsOver

\* C8: declareExtra never raises overs and never raises balls; while every
\* command since the initial state was a declareExtra, overs = 0 and
\* balls = 0, and an extra without a valid ballNumber adds 1 + its runs
\* argument to runs.
C8_ExtrasNeverRollOver ==
    [][last'.type = "declareExtra" =>
          /\ score'.overs = score.overs
          /\ score'.balls <= score.balls
          /\ hist'.onlyExtras =>
                /\ score'.overs = 0
                /\ score'.balls = 0
                /\ (last'.ballNumber # "inside" /\ ~last'.ignored) =>
                      score'.runs = score.runs + 1 + last'.args.runs]_vars

\* only extras were declared since the initial state, the last one appended
C8_OnlyExtras ==
    /\ hist.onlyExtras
    /\ last.type = "declareExtra"
    /\ last.ballNumber # "inside"
    /\ ~last.ignored
    /\ score.recentThisOver # <<>>

\* C9: while the innings is not over, a delivery command whose ballNumber is
\* zero, negative or beyond the current over leaves the state the same
\* command leaves without a ballNumber.
C9_OutsideIsAppend ==
    ~score.inningsOver =>
        \A c \in DeliveryCommands :
            LET appended == handleGeminiFunctionCall(
                                score, c[1], WithBallNumber(c[2], None))
            IN \A ballNumber \in OutsideBallNumbers(score.recentThisOver) :
                   handleGeminiFunctionCall(
                       score, c[1], WithBallNumber(c[2], ballNumber)) = appended

\* a command with a ballNumber outside the current over has appended its
\* outcome to a current over that was not empty
C9_OutsideAppended ==
    /\ last.type \in DeliveryTypes
    /\ last.ballNumber = "outside"
    /\ Len(score.recentThisOver) >= 2
    /\ score.recentThisOver[Len(score.recentThisOver)] = last.ball

\* C10: addRuns(runs) gives runs = runs, isWicket = false, isLegalDelivery =
\* true; declareWicket(r) gives runs = r (0 when absent), isWicket = true,
\* isLegalDelivery = true; declareExtra(kind, r) gives runs = 1 + r,
\* isWicket = false, isLegalDelivery = false, extraType = kind.
C10_Classification ==
    (last.type \in DeliveryTypes /\ ~last.ignored) =>
        /\ last.type = "addRuns" =>
              /\ last.ball.runs = last.args.runs
              /\ ~last.ball.isWicket
              /\ last.ball.isLegalDelivery
        /\ last.type = "declareWicket" =>
              /\ last.ball.runs = (IF last.args.runsOnDismissal = None THEN 0
                                   ELSE last.args.runsOnDismissal[1])
              /\ last.ball.isWicket
              /\ last.ball.isLegalDelivery
        /\ last.type = "declareExtra" =>
              /\ last.ball.runs = 1 + last.args.runs
              /\ ~last.ball.isWicket
              /\ ~last.ball.isLegalDelivery
              /\ last.ball.extraType = last.args.type
        /\ (last.ballNumber # "inside" /\ score.recentThisOver # <<>>) =>
              score.recentThisOver[Len(score.recentThisOver)] = last.ball

\* a no-ball with the largest runs argument has been classified
C10_NoBallWithSix ==
    /\ last.type = "declareExtra"
    /\ last.args = [runs |-> MaxRunArg, runsOnDismissal |-> None, type |-> "no_ball"]
    /\ last.ball.runs = MaxRunArg + 1
    /\ score.runs = MaxRunArg + 1

\* C11: resetInnings leaves runs = 0, wickets = 0, overs = 0, balls = 0,
\* recentThisOver empty and inningsOver false, with maxWickets as it was
\* before the reset.
C11_NewInningsReset ==
    [][last'.type = "newInnings" =>
          /\ score'.runs = 0
          /\ score'.wickets = 0
          /\ score'.overs = 0
          /\ score'.balls = 0
          /\ score'.recentThisOver = <<>>
          /\ ~score'.inningsOver
          /\ score'.maxWickets = score.maxWickets]_vars

\* a new innings has begun with a maxWickets that is not the initial one
C11_ResetKeptWickets ==
    /\ last.type = "newInnings"
    /\ score.maxWickets = 1
    /\ score.maxWickets # INITIAL_SCORE_STATE.maxWickets
    /\ score.wickets = 0
    /\ ~score.inningsOver

\* C12: maxWickets changes only by handleMaxWicketsChange, only to a number
\* >= 1 and only while runs, wickets, overs and balls are all 0; the
\* handler changes no other field.
C12_MaxWicketsGuard ==
    [][/\ score'.maxWickets # score.maxWickets =>
             /\ last'.type = "maxWickets"
             /\ score'.maxWickets >= 1
             /\ score.runs = 0
             /\ score.wickets = 0
             /\ score.overs = 0
             /\ score.balls = 0
       /\ last'.type = "maxWickets" =>
             score' = [score EXCEPT !.maxWickets = score'.maxWickets]]_vars

\* the max-wickets input has changed maxWickets
C12_MaxWicketsChanged ==
    /\ last.type = "maxWickets"
    /\ score.maxWickets = 1
    /\ ~isGameStarted(score)

\* C13: clearLastBall never changes overs or inningsOver, and with
\* recentThisOver empty it leaves the whole state unchanged.
C13_ClearBoundary ==
    [][last'.type = "clearLastBall" =>
          /\ score'.overs = score.overs
          /\ score'.inningsOver = score.inningsOver
          /\ score.recentThisOver = <<>> => score' = score]_vars

\* clearLastBall was handled with the current over empty after an over had
\* been completed
C13_ClearAfterOver ==
    /\ last.type = "clearLastBall"
    /\ ~last.undo
    /\ score.recentThisOver = <<>>
    /\ hist.played = 1
    /\ score.overs >= 1
    /\ ~score.inningsOver

C15_BallsAreLegalCount ==
    /\ score.balls = LegalCount(score.recentThisOver)
    /\ score.balls \in 0 .. 5

\* an edit has put an extra in the place of the only ball of an over that
\* was not all extras
C15_EditedToExtra ==
    /\ last.type = "declareExtra"
    /\ last.ballNumber = "inside"
    /\ ~hist.onlyExtras
    /\ Len(score.recentThisOver) = 1
    /\ score.balls = 0
    /\ score.overs = 0

\* the sum of the runs of the outcomes of an over
RECURSIVE RunSum(_)
RunSum(s) ==
    IF s = <<>> THEN 0 ELSE Head(s).runs + RunSum(Tail(s))

\* C16: in every reachable state runs >= 0 and wickets >= 0, runs is at
\* least the sum of the runs of recentThisOver and wickets at least the
\* number of its wicket outcomes.
C16_TotalsNotNegative ==
    /\ score.runs >= 0
    /\ score.wickets >= 0
    /\ score.runs >= RunSum(score.recentThisOver)
    /\ score.wickets >= WicketCount(score.recentThisOver)

\* clearLastBall has removed a ball and left a wicket in the current over
\* that is all of the totals
C16_ClearedDownToOver ==
    /\ last.type = "clearLastBall"
    /\ last.undo
    /\ score.recentThisOver # <<>>
    /\ score.wickets = 1
    /\ score.wickets = WicketCount(score.recentThisOver)
    /\ score.runs = RunSum(score.recentThisOver)

\* the label the other fields of an outcome determine
Label(b) ==
    IF b.isWicket
    THEN (IF b.runs = 0 THEN "W" ELSE "W+" \o ToString(b.runs))
    ELSE IF b.isLegalDelivery
    THEN ToString(b.runs)
    ELSE (IF b.runs - 1 > 0 THEN ToString(b.runs - 1) ELSE "")
         \o (IF b.extraType = "wide" THEN "wd" ELSE "nb")

\* C17: the display of every outcome in recentThisOver is the decimal runs
\* for a legal ball that is no wicket, "W" or "W+r" for a wicket, and the
\* runs beyond the penalty (when > 0) followed by "wd" or "nb" for an extra;
\* two outcomes equal in runs, isWicket, isLegalDelivery and extraType have
\* equal displays.
C17_LabelIsFunction ==
    /\ \A i \in DOMAIN score.recentThisOver :
          score.recentThisOver[i].display = Label(score.recentThisOver[i])
    /\ \A i, j \in DOMAIN score.recentThisOver :
          LET a == score.recentThisOver[i]
              b == score.recentThisOver[j]
          IN (/\ a.runs = b.runs
              /\ a.isWicket = b.isWicket
              /\ a.isLegalDelivery = b.isLegalDelivery
              /\ a.extraType = b.extraType) => a.display = b.display

\* a wide with the most runs is stored with its label
C17_WideWithSix ==
    /\ score.recentThisOver # <<>>
    /\ score.recentThisOver[1].display = "6wd"
    /\ score.recentThisOver[1].runs = MaxRunArg + 1

\* C18: recentThisOver holds fewer than 6 legal deliveries whenever a command
\* is handled, so every delivery command without a valid ballNumber that is
\* handled while the innings is not over has its outcome appended (the over
\* then being emptied if that was its sixth legal delivery).
C18_NeverDropped ==
    [][/\ LegalCount(score.recentThisOver) < 6
       /\ (/\ last'.type \in DeliveryTypes
           /\ ~last'.ignored
           /\ last'.ballNumber # "inside") =>
              \/ score'.recentThisOver = Append(score.recentThisOver, last'.ball)
              \/ /\ score'.recentThisOver = <<>>
                 /\ score'.overs = score.overs + 1
                 /\ LegalCount(Append(score.recentThisOver, last'.ball)) = 6]_vars

\* an outcome has been appended as the fifth legal delivery of an over
\* that also holds an extra
C18_AppendedFifth ==
    /\ last.type \in DeliveryTypes
    /\ ~last.ignored
    /\ last.ballNumber = "absent"
    /\ last.ball.isLegalDelivery
    /\ LegalCount(score.recentThisOver) = 5
    /\ Len(score.recentThisOver) = 6
    /\ score.recentThisOver[6] = last.ball

\* C19: in every reachable state wickets <= maxWickets and
\* overs <= targetOvers, and so after any delivery command handled in it,
\* appended or editing the last ball of the over.
C19_LimitsNotOvershot ==
    /\ score.wickets <= score.maxWickets
    /\ score.overs <= score.targetOvers
    /\ \A c \in DeliveryCommands :
          \A ballNumber \in {None, Some(Len(score.recentThisOver))} :
              LET next == handleGeminiFunctionCall(
                              score, c[1], WithBallNumber(c[2], ballNumber))
              IN /\ next.wickets <= next.maxWickets
                 /\ next.overs <= next.targetOvers

\* an edit has turned a ball into the wicket that reaches maxWickets
C19_EditReachedLimit ==
    /\ last.type = "declareWicket"
    /\ last.ballNumber = "inside"
    /\ score.wickets = score.maxWickets
    /\ score.inningsOver

\* C20: in every reachable state with runs = 0, wickets = 0, overs = 0 and
\* balls = 0, recentThisOver is empty and inningsOver is false.
C20_NotStartedIsSound ==
    (/\ score.runs = 0
     /\ score.wickets = 0
     /\ score.overs = 0
     /\ score.balls = 0) =>
        /\ score.recentThisOver = <<>>
        /\ ~score.inningsOver

\* the only outcome recorded, an extra, was cleared and nothing is recorded
\* again
C20_BackToNotStarted ==
    /\ last.type = "clearLastBall"
    /\ last.undo
    /\ hist.accepted = 0
    /\ ~isGameStarted(score)
    /\ score.recentThisOver = <<>>

\* C21: when the onerror callback has run, isRecording is false and status
\* is 'error', so that the text shown is 'An error occurred. Please try
\* again.'.
C21_ErrorReported ==
    [][session'.event = "onerror" =>
          /\ ~session'.isRecording
          /\ session'.status = "error"
          /\ getStatusText(session'.status)
                 = "An error occurred. Please try again."]_vars

\* the onerror callback has run on a session that was listening: recording
\* has stopped and the text shown is the idle one
C21_ErrorShownAsIdle ==
    /\ session.event = "onerror"
    /\ ~session.isRecording
    /\ session.phase = "none"
    /\ session.status = "idle"
    /\ getStatusText(session.status) = "Tap to start scoring"
    /\ score.recentThisOver # <<>>

====
